---- MODULE Spec2Model ----
(***************************************************************************)
(* Phone account ledger (src/落秋学习通余额处理.py): the in-memory store,    *)
(* the snapshot file with its backups, the prompt-driven operations of     *)
(* PhoneAccountSystem and AccountManager, and the sync collaborator.       *)
(*                                                                         *)
(* Strings typed at a prompt are sequences of one-character strings.       *)
(* Floats are records [cls, v]: a finite value rounded to Precision        *)
(* significant bits, or inf, -inf, nan.  Time is a count of clock ticks.   *)
(***************************************************************************)
EXTENDS Integers, Sequences, FiniteSets, TLC

\* ---------------------------------------------------------------- bounds
MaxClock == 3          \* the clock stops advancing here
MaxOps == 2            \* operations chosen at the menu in one run
MaxFaults == 1         \* failures of the file system and of git in one run
MaxBalance == 104      \* recharge is not offered above this finite balance
Precision == 6         \* significant bits of a float (53 in the program)
TicksPerDay == 2       \* clock ticks in one day
TicksPerSecond == 1    \* clock ticks in one second (backup names)
MaxLate == 4           \* oldest backups whose file may be a second older

\* ------------------------------------------------------- class Config
BACKUP_COUNT == 10
MAX_AUTH_ATTEMPTS == 3
MIN_ANSWER_LENGTH == 2
DEFAULT_REGISTRATION_BONUS == 50

\* ------------------------------------------------------------- strings
None == <<>>
Digits == {"0", "1", "2", "3", "4", "5", "6", "7", "8", "9"}

IsDigit(s) == Len(s) > 0 /\ \A i \in 1..Len(s) : s[i] \in Digits

DigitVal(c) ==
  CASE c = "0" -> 0 [] c = "1" -> 1 [] c = "2" -> 2 [] c = "3" -> 3
    [] c = "4" -> 4 [] c = "5" -> 5 [] c = "6" -> 6 [] c = "7" -> 7
    [] c = "8" -> 8 [] c = "9" -> 9

RECURSIVE DecVal(_)
DecVal(s) == IF Len(s) = 0 THEN 0
             ELSE 10 * DecVal(SubSeq(s, 1, Len(s) - 1)) + DigitVal(s[Len(s)])

LowerChar(c) == CASE c = "A" -> "a" [] c = "B" -> "b" [] OTHER -> c
Lower(s) == [i \in 1..Len(s) |-> LowerChar(s[i])]

RECURSIVE LStrip(_)
LStrip(s) == IF Len(s) > 0 /\ s[1] = " " THEN LStrip(Tail(s)) ELSE s
RECURSIVE RStrip(_)
RStrip(s) == IF Len(s) > 0 /\ s[Len(s)] = " "
             THEN RStrip(SubSeq(s, 1, Len(s) - 1)) ELSE s
Strip(s) == RStrip(LStrip(s))

\* --------------------------------------------------- NavigationManager
handle_back_choice(choice) == choice = <<"0">>

\* ----------------------------------------------------- SecurityManager
validate_phone(phone) ==
  /\ Len(phone) = 11
  /\ phone[1] = "1"
  /\ phone[2] \in {"3", "4", "5", "6", "7", "8", "9"}
  /\ \A i \in 3..11 : phone[i] \in Digits

validate_password(password) == Len(password) = 4 /\ IsDigit(password)

\* sha256 is taken to be collision free: the digest names its preimage.
hash_password(password) == <<"sha256", password>>
hash_answer(answer) == <<"sha256", Lower(Strip(answer))>>
verify_password(input_password, stored_hash) ==
  hash_password(input_password) = stored_hash
verify_answer(input_answer, stored_hash) ==
  hash_answer(input_answer) = stored_hash

\* -------------------------------------------------------------- floats
Fin(n) == [cls |-> "fin", v |-> n]
INF == [cls |-> "inf", v |-> 0]
NEGINF == [cls |-> "-inf", v |-> 0]
NAN == [cls |-> "nan", v |-> 0]

Abs(n) == IF n < 0 THEN 0 - n ELSE n

RECURSIVE Pow2(_)
Pow2(k) == IF k = 0 THEN 1 ELSE 2 * Pow2(k - 1)

\* the spacing of floats at magnitude n
RECURSIVE Ulp(_, _)
Ulp(n, q) == IF n < q * Pow2(Precision) THEN q ELSE Ulp(n, 2 * q)

\* round to nearest, ties to even
RoundAbs(n) ==
  LET q == Ulp(n, 1)
      lo == (n \div q) * q
      r == n - lo
  IN  IF 2 * r < q THEN lo
      ELSE IF 2 * r > q THEN lo + q
      ELSE IF (lo \div q) % 2 = 0 THEN lo ELSE lo + q
Round(n) == IF n < 0 THEN 0 - RoundAbs(Abs(n)) ELSE RoundAbs(n)

FAdd(a, b) ==
  IF a.cls = "nan" \/ b.cls = "nan" THEN NAN
  ELSE IF a.cls = "fin" /\ b.cls = "fin" THEN Fin(Round(a.v + b.v))
  ELSE IF a.cls = "fin" THEN b
  ELSE IF b.cls = "fin" THEN a
  ELSE IF a.cls = b.cls THEN a ELSE NAN

FNeg(a) == CASE a.cls = "fin" -> Fin(0 - a.v)
             [] a.cls = "inf" -> NEGINF
             [] a.cls = "-inf" -> INF
             [] OTHER -> NAN
FSub(a, b) == FAdd(a, FNeg(b))

\* a < b; every comparison with nan is false
FLess(a, b) ==
  IF a.cls = "nan" \/ b.cls = "nan" THEN FALSE
  ELSE IF a.cls = "fin" /\ b.cls = "fin" THEN a.v < b.v
  ELSE IF a.cls = b.cls THEN FALSE
  ELSE a.cls = "-inf" \/ b.cls = "inf"
FEq(a, b) == a.cls # "nan" /\ b.cls # "nan" /\ a = b
FLessEq(a, b) == FLess(a, b) \/ FEq(a, b)

\* float(s): "ValueError" when s is no number
ValueError == [cls |-> "ValueError", v |-> 0]
ParseFloat(s) ==
  LET t == Lower(Strip(s)) IN
  IF t = <<"n", "a", "n">> THEN NAN
  ELSE IF t = <<"i", "n", "f">> THEN INF
  ELSE IF t = <<"-", "i", "n", "f">> THEN NEGINF
  ELSE IF IsDigit(t) THEN Fin(Round(DecVal(t)))
  ELSE IF Len(t) > 1 /\ t[1] = "-" /\ IsDigit(Tail(t))
       THEN Fin(0 - Round(DecVal(Tail(t))))
  ELSE ValueError

\* int(s): "ValueError" when s is no integer
IntError == 0 - 1000000
ParseInt(s) ==
  LET t == Strip(s) IN
  IF IsDigit(t) THEN DecVal(t)
  ELSE IF Len(t) > 1 /\ t[1] = "-" /\ IsDigit(Tail(t)) THEN 0 - DecVal(Tail(t))
  ELSE IntError

\* --------------------------------------------------------- TimeManager
\* datetime.isoformat / datetime.fromisoformat keep every tick
IsoFormat(t) == <<"iso", t>>
parse_time(time_str) == time_str[2]
calculate_expiry_time(valid_days, now) == IsoFormat(now + valid_days * TicksPerDay)
is_expired(expiry_time, now) == now > parse_time(expiry_time)

\* ------------------------------------------------- the account store
\* A store is a dict in insertion order: a sequence of [phone, info] entries;
\* info maps the keys present to their values.
Phones(store) == {store[i].phone : i \in DOMAIN store}
IndexOf(store, phone) == CHOOSE i \in DOMAIN store : store[i].phone = phone
Info(store, phone) == store[IndexOf(store, phone)].info
SetKey(store, phone, key, value) ==
  [store EXCEPT ![IndexOf(store, phone)].info = (key :> value) @@ @]
DelAccount(store, phone) == SelectSeq(store, LAMBDA e : e.phone # phone)
HasKey(info, key) == key \in DOMAIN info
Get(info, key) == IF key \in DOMAIN info THEN info[key] ELSE None

\* register_phone: the tail check, the tail, the provisional account
\* the tail check left out
tail_conflict_off(accts, last_four) == FALSE

tail_conflict(accts, last_four) ==
  \E i \in DOMAIN accts : Get(accts[i].info, "last_four") = last_four

LastFour(p) == SubSeq(p, Len(p) - 3, Len(p))

NewAccount(bonus_amount, last_four) ==
  [balance |-> bonus_amount,
   last_four |-> last_four,
   password |-> None,
   security_question |-> None,
   security_answer |-> None,
   status |-> "unset",
   registration_bonus |-> bonus_amount]

\* ----------------------------------------- BackupManager, FileStorage
NoFile == [exists |-> FALSE, text |-> <<>>, mtime |-> 0]
JsonDump(data) == <<"json", data>>
Truncated == <<"truncated">>
\* json.load raises on anything but a complete dump
JsonParses(text) == Len(text) = 2 /\ text[1] = "json"
JsonLoads(text) == text[2]

\* strftime("%Y%m%d_%H%M%S"): the clock reading cut to whole seconds
BackupName(now) == now \div TicksPerSecond

\* the sort not reversed: the BACKUP_COUNT oldest are kept
cleanup_old_backups_oldest_kept(bk) ==
  IF Cardinality(DOMAIN bk) <= BACKUP_COUNT THEN {bk}
  ELSE {[n \in K |-> bk[n]] :
          K \in {K \in SUBSET DOMAIN bk :
                   /\ Cardinality(K) = BACKUP_COUNT
                   /\ \A k \in K : \A j \in DOMAIN bk \ K :
                        bk[k].mtime <= bk[j].mtime}}

\* the backup sets _cleanup_old_backups may leave: the BACKUP_COUNT newest by
\* modification time, ties broken by the directory's listing order
cleanup_old_backups(bk) ==
  IF Cardinality(DOMAIN bk) <= BACKUP_COUNT THEN {bk}
  ELSE {[n \in K |-> bk[n]] :
          K \in {K \in SUBSET DOMAIN bk :
                   /\ Cardinality(K) = BACKUP_COUNT
                   /\ \A k \in K : \A j \in DOMAIN bk \ K :
                        bk[k].mtime >= bk[j].mtime}}

\* create_backup: [ok, backups, faults] for each way the copy can end; faults
\* counts the failures of the file system in that outcome.  shutil.copy2
\* keeps the modification time of the file it copies.
create_backup(file, bk, now) ==
  IF ~file.exists THEN {[ok |-> FALSE, backups |-> bk, faults |-> 0]}
  ELSE {[ok |-> FALSE, backups |-> bk, faults |-> 1]} \cup
       {[ok |-> TRUE, backups |-> b, faults |-> 0] :
          b \in cleanup_old_backups(
                  (BackupName(now) :> [text |-> file.text, mtime |-> file.mtime])
                  @@ bk)}

\* the except branch left out: the error of json.load reaches the caller
load_data_raises(file) ==
  IF file.exists
  THEN IF JsonParses(file.text) THEN JsonLoads(file.text) ELSE <<"JSONDecodeError">>
  ELSE <<>>

load_data(file) ==
  IF file.exists
  THEN IF JsonParses(file.text) THEN JsonLoads(file.text) ELSE <<>>
  ELSE <<>>

\* save_data: [ok, file, backups, faults] for each way the backup and the write can end:
\* the write succeeds, open() fails, or the dump fails after open() truncated
\* the file.
save_data(data, file, bk, now) ==
  UNION {{[ok |-> TRUE,
           file |-> [exists |-> TRUE, text |-> JsonDump(data), mtime |-> now],
           backups |-> b.backups, faults |-> b.faults],
          [ok |-> FALSE, file |-> file, backups |-> b.backups,
           faults |-> b.faults + 1],
          [ok |-> FALSE,
           file |-> [exists |-> TRUE, text |-> Truncated, mtime |-> now],
           backups |-> b.backups, faults |-> b.faults + 1]} :
           b \in create_backup(file, bk, now)}

\* ---------------------------------------------------- GitHubSyncManager
\* git_commit_and_push: [ok, msg, head, remote] for each way it can end
git_commit_and_push(file, head, remote) ==
  {[ok |-> FALSE, msg |-> "git_failed", head |-> head, remote |-> remote,
    faults |-> 1]} \cup
  (IF file.exists /\ file.text = head
   THEN {[ok |-> TRUE, msg |-> "no_changes", head |-> head, remote |-> remote,
          faults |-> 0]}
   ELSE IF file.exists
   THEN {[ok |-> TRUE, msg |-> "pushed", head |-> file.text, remote |-> file.text,
          faults |-> 0],
         [ok |-> TRUE, msg |-> "push_failed", head |-> file.text, remote |-> remote,
          faults |-> 1]}
   ELSE {})

\* ------------------------------------------------------------- inputs
P1 == <<"1", "3", "8", "0", "0", "0", "0", "1", "2", "3", "4">>
P2 == <<"1", "3", "9", "0", "0", "0", "0", "1", "2", "3", "4">>
P3 == <<"1", "3", "8", "0", "0", "0", "0", "5", "6", "7", "8">>
BACK == <<"0">>
PhoneInputs == {BACK, P1, P2, P3, <<"1", "2", "3">>}
IdentInputs == {BACK, P1, P3, <<"1", "2", "3", "4">>, <<"9", "9", "9", "9">>}
BonusInputs == {BACK, <<>>, <<"n", "a", "n">>, <<"-", "1">>, <<"x">>}
DaysInputs == {BACK, <<"1">>, <<"-", "1">>, <<"x">>}
Pin1 == <<"1", "2", "3", "4">>
Pin2 == <<"5", "6", "7", "8">>
NewPinInputs == {BACK, Pin1, <<"1", "2">>}
ResetPinInputs == {BACK, Pin2, <<"1", "2">>}
PinInputs == {BACK, Pin1, Pin2}
QuestionInputs == {BACK, <<"3">>, <<"9">>, <<"x">>}
AnswerInputs == {BACK, <<"A", "b">>, <<"a">>}
AnswerTries == {BACK, <<"a", "b">>, <<"x", "y">>}
AmountInputs == {BACK, <<"1">>, <<"1", "5">>, <<"5", "0">>, <<"i", "n", "f">>,
                 <<"n", "a", "n">>,
                 <<"-", "1">>, <<"x">>}

common_questions == <<<<"Q1">>, <<"Q2">>, <<"Q3">>, <<"Q4">>,
                      <<"Q5">>, <<"Q6">>, <<"Q7">>, <<"Q8">>>>

\* -------------------------------------------------------------- state
VARIABLES
  accounts,          \* AccountManager.accounts
  disk,              \* the snapshot file
  backups,           \* the backup directory: name -> [text, mtime]
  head,              \* the text of the snapshot in the last local commit
  remote,            \* the text of the snapshot at the remote
  github_enabled,
  clock,
  pc,                \* the prompt the program waits at
  op,                \* the operation chosen at the menu
  phone,             \* the phone the operation works on
  attempts,          \* attempts left in the authentication loop
  selected_question,
  input,             \* what was read last, and at which prompt
  ret,               \* what the last operation returned
  io,                \* what the last step did to the file and the remote
  pre,               \* the store when the operation was chosen
  authed,            \* the authentication that succeeded in this operation
  prompts,           \* credential prompts issued by this authentication call
  opsDone,           \* operations chosen so far
  failed_calls,      \* the phones of the authentication calls that failed so far
  faults             \* failures of the file system and of git so far

vars == <<accounts, disk, backups, head, remote, github_enabled, clock, pc, op,
          phone, attempts, selected_question, input, ret, io, pre, authed,
          prompts, opsDone, failed_calls, faults>>

NoInput == [at |-> "none", text |-> <<>>]
NoRet == [op |-> "none", ok |-> FALSE, msg |-> "none", report |-> <<>>]
NoIO == [save |-> "none", push |-> "none"]

\* an account as a registration at clock 0 leaves it
Registered(p, pin) ==
  [phone |-> p,
   info |-> ("valid_days" :> 1) @@ ("created_at" :> IsoFormat(0))
            @@ ("expiry_time" :> calculate_expiry_time(1, 0))
            @@ ("last_modified" :> IsoFormat(0))
            @@ [NewAccount(Fin(DEFAULT_REGISTRATION_BONUS), LastFour(p))
                  EXCEPT !.status = "active",
                         !.password = hash_password(pin),
                         !.security_question = common_questions[3],
                         !.security_answer = hash_answer(<<"a", "b">>)]]

\* the snapshot files the program may find when it starts: none, one that a
\* save cut short, or one it wrote
StartFiles ==
  {NoFile, [exists |-> TRUE, text |-> Truncated, mtime |-> 0]} \cup
  {[exists |-> TRUE, text |-> JsonDump(data), mtime |-> 0] :
     data \in {<<Registered(P1, Pin1)>>,
               <<Registered(P1, Pin1), Registered(P3, Pin1)>>}}

\* PhoneAccountSystem.__init__: the store is loaded from the snapshot file
Init ==
  /\ disk \in StartFiles
  /\ accounts = load_data(disk)
  /\ backups = <<>>
  /\ github_enabled \in BOOLEAN
  /\ head = IF github_enabled /\ disk.exists THEN disk.text ELSE None
  /\ remote = head
  /\ clock = 0
  /\ pc = "menu"
  /\ op = "none"
  /\ phone = None
  /\ attempts = 0
  /\ selected_question = None
  /\ input = NoInput
  /\ ret = NoRet
  /\ io = NoIO
  /\ pre = <<>>
  /\ authed = None
  /\ prompts = 0
  /\ opsDone = 0
  /\ failed_calls = <<>>
  /\ faults = 0

\* the operation returns (ok, msg) to the menu
Return(ok, msg) ==
  /\ pc' = "menu"
  /\ ret' = [op |-> op, ok |-> ok, msg |-> msg, report |-> <<>>]
  /\ phone' = phone
  /\ attempts' = 0
  /\ selected_question' = None

\* the prompt is issued again
Again == UNCHANGED <<pc, ret, phone, attempts, selected_question>>

NoStoreChange ==
  UNCHANGED <<accounts, disk, backups, head, remote, faults>> /\ io' = NoIO
NoStoreChangeBut == UNCHANGED <<disk, backups, head, remote, faults>> /\ io' = NoIO

\* sync_to_github as the operations call it: [push, head, remote] per outcome
sync_to_github(file, h, r) ==
  IF github_enabled
  THEN {[push |-> IF g.ok THEN "ok" ELSE "failed", ok |-> g.ok, msg |-> g.msg,
         head |-> g.head, remote |-> g.remote, faults |-> g.faults] :
          g \in git_commit_and_push(file, h, r)}
  ELSE {[push |-> "none", ok |-> FALSE, msg |-> "disabled", head |-> h, remote |-> r,
         faults |-> 0]}

\* the push made before the save: the file as the operation found it
FilePushed_before(before, after) == before

\* the operations call sync_to_github after save_data returned True: the file
\* the push sees is the file the save wrote
FilePushed(before, after) == after

\* the operation failing when its push failed
ResultAfterPush_fails(push) == push # "failed"

\* the operations ignore what sync_to_github returns: they succeed
ResultAfterPush(push) == TRUE

\* the cancelled operation leaving the store without its first account
CancelledStore_dropped(accts) == IF accts = <<>> THEN accts ELSE Tail(accts)

\* the store after the back choice at a prompt of recharge, deduct,
\* reset_password or an authentication: the return assigns nothing
CancelledStore(accts) == accts

\* ------------------------------------------------------------ the menu
\* main: an operation is chosen
Menu ==
  /\ pc = "menu"
  /\ opsDone < MaxOps
  /\ \E choice \in {"register", "recharge", "deduct", "reset"} :
       /\ op' = choice
       /\ pc' = IF choice = "register" THEN "reg_phone" ELSE "ident"
  /\ opsDone' = opsDone + 1
  /\ pre' = accounts
  /\ ret' = NoRet
  /\ phone' = None
  /\ attempts' = 0
  /\ selected_question' = None
  /\ authed' = None
  /\ prompts' = 0
  /\ input' = NoInput
  /\ NoStoreChange
  /\ UNCHANGED <<github_enabled, failed_calls, clock>>

\* the clock advances while the program waits at the menu or for an amount
Tick ==
  /\ clock < MaxClock
  /\ pc \in {"menu", "amount"}
  /\ clock' = clock + 1
  /\ UNCHANGED <<accounts, disk, backups, head, remote, github_enabled, failed_calls, pc, op,
                 phone, attempts, selected_question, input, ret, io, pre, authed,
                 prompts, opsDone, faults>>

\* ------------------------------------------------------------ register
\* register_phone, the phone prompt
RegisterPhone ==
  /\ pc = "reg_phone"
  /\ \E s \in PhoneInputs :
       LET typed == Strip(s) IN
       /\ input' = [at |-> pc, text |-> typed]
       /\ IF handle_back_choice(typed) THEN Return(FALSE, "cancelled")
          ELSE IF \/ ~validate_phone(typed)
                  \/ typed \in Phones(accounts)
                  \/ tail_conflict(accounts, LastFour(typed))
          THEN Again
          ELSE /\ phone' = typed
               /\ pc' = "reg_bonus"
               /\ UNCHANGED <<ret, attempts, selected_question>>
  /\ NoStoreChange
  /\ UNCHANGED <<github_enabled, failed_calls, clock, op, pre, authed, prompts, opsDone>>

\* set_registration_bonus: "reject", "retry" or the bonus
BonusOf(bonus_input) ==
  IF bonus_input = <<>> THEN Fin(DEFAULT_REGISTRATION_BONUS)
  ELSE IF ParseFloat(bonus_input) = ValueError THEN ValueError
  ELSE IF FLess(ParseFloat(bonus_input), Fin(0)) THEN ValueError
  ELSE ParseFloat(bonus_input)

\* register_phone from the bonus prompt to the creation of the account
SetRegistrationBonus ==
  /\ pc = "reg_bonus"
  /\ \E s \in BonusInputs :
       /\ input' = [at |-> pc, text |-> s]
       /\ IF handle_back_choice(s)
          THEN Return(FALSE, "cancelled") /\ UNCHANGED accounts
          ELSE IF BonusOf(s) = ValueError
          THEN Again /\ UNCHANGED accounts
          ELSE /\ accounts' = Append(accounts,
                     [phone |-> phone, info |-> NewAccount(BonusOf(s), LastFour(phone))])
               /\ pc' = "reg_days"
               /\ UNCHANGED <<ret, phone, attempts, selected_question>>
  /\ io' = NoIO
  /\ UNCHANGED <<disk, backups, head, remote, github_enabled, failed_calls, clock, op, pre,
                 authed, prompts, opsDone, faults>>

\* the provisional account left in the store
RollbackRegistration_kept(accts, p) == accts

\* register_phone discards the provisional account
RollbackRegistration(accts, p) == DelAccount(accts, p)

\* the account with its validity period set; the clock is read twice
WithValidDays(accts, p, valid_days, now1, now2) ==
  SetKey(SetKey(SetKey(SetKey(accts, p, "valid_days", valid_days),
                       p, "created_at", IsoFormat(now1)),
                p, "expiry_time", calculate_expiry_time(valid_days, now2)),
         p, "status", "active")

\* set_valid_days and its caller's rollback
SetValidDays ==
  /\ pc = "reg_days"
  /\ \E s \in DaysInputs :
       /\ input' = [at |-> pc, text |-> s]
       /\ IF handle_back_choice(s)
          THEN /\ accounts' = RollbackRegistration(accounts, phone)
               /\ Return(FALSE, "cancelled")
               /\ UNCHANGED clock
          ELSE IF ParseInt(s) = IntError \/ ParseInt(s) <= 0
          THEN Again /\ UNCHANGED <<accounts, clock>>
          ELSE \E now2 \in {clock, clock + 1} :
                 /\ now2 <= MaxClock
                 /\ clock' = now2
                 /\ accounts' = WithValidDays(accounts, phone, ParseInt(s), clock, now2)
                 /\ pc' = "reg_pw"
                 /\ UNCHANGED <<ret, phone, attempts, selected_question>>
  /\ io' = NoIO
  /\ UNCHANGED <<disk, backups, head, remote, github_enabled, failed_calls, op, pre, authed,
                 prompts, opsDone, faults>>

\* set_password_and_security, the password prompts
SetPassword ==
  /\ pc = "reg_pw"
  /\ \E password \in NewPinInputs, confirm_password \in {Pin1, Pin2} :
       /\ input' = [at |-> pc, text |-> password]
       /\ IF handle_back_choice(password)
          THEN /\ accounts' = RollbackRegistration(accounts, phone)
               /\ Return(FALSE, "cancelled")
          ELSE IF ~validate_password(password) \/ password # confirm_password
          THEN Again /\ UNCHANGED accounts
          ELSE /\ accounts' = SetKey(accounts, phone, "password", hash_password(password))
               /\ pc' = "reg_q"
               /\ UNCHANGED <<ret, phone, attempts, selected_question>>
  /\ io' = NoIO
  /\ UNCHANGED <<disk, backups, head, remote, github_enabled, failed_calls, clock, op, pre,
                 authed, prompts, opsDone, faults>>

\* set_password_and_security, the question prompt
SelectQuestion ==
  /\ pc = "reg_q"
  /\ \E choice \in QuestionInputs :
       /\ input' = [at |-> pc, text |-> choice]
       /\ IF handle_back_choice(choice)
          THEN /\ accounts' = RollbackRegistration(accounts, phone)
               /\ Return(FALSE, "cancelled")
          ELSE IF ParseInt(choice) = IntError \/ ~(1 <= ParseInt(choice) /\ ParseInt(choice) <= 8)
          THEN Again /\ UNCHANGED accounts
          ELSE /\ selected_question' = common_questions[ParseInt(choice)]
               /\ pc' = "reg_ans"
               /\ UNCHANGED <<accounts, ret, phone, attempts>>
  /\ io' = NoIO
  /\ UNCHANGED <<disk, backups, head, remote, github_enabled, failed_calls, clock, op, pre,
                 authed, prompts, opsDone, faults>>

\* the security question left unset
WithSecurity_answer_only(accts, p, question, answer, now) ==
  SetKey(SetKey(accts, p, "security_answer", hash_answer(answer)),
         p, "last_modified", IsoFormat(now))

\* the account with its security answer and last_modified set
WithSecurity(accts, p, question, answer, now) ==
  SetKey(SetKey(SetKey(accts, p, "security_question", question),
                p, "security_answer", hash_answer(answer)),
         p, "last_modified", IsoFormat(now))

\* set_password_and_security from the answer prompts to the save, and the rest
\* of register_phone: rollback when the save failed, the push when it succeeded
SetAnswer ==
  /\ pc = "reg_ans"
  /\ \E a \in AnswerInputs, c \in {<<"a", "b">>, <<"x", "y">>} :
       LET answer == Strip(a)
           confirm_answer == Strip(c)
       IN
       /\ input' = [at |-> pc, text |-> answer]
       /\ IF handle_back_choice(answer)
          THEN /\ accounts' = RollbackRegistration(accounts, phone)
               /\ Return(FALSE, "cancelled")
               /\ NoStoreChangeBut
          ELSE IF Len(answer) < MIN_ANSWER_LENGTH \/ Lower(answer) # Lower(confirm_answer)
          THEN Again /\ UNCHANGED accounts /\ NoStoreChangeBut
          ELSE LET secured == WithSecurity(accounts, phone, selected_question, answer, clock)
               IN \E o \in save_data(secured, disk, backups, clock) :
                    /\ disk' = o.file
                    /\ backups' = o.backups
                    /\ IF o.ok
                       THEN /\ accounts' = secured
                            /\ \E g \in sync_to_github(FilePushed(disk, o.file), head, remote) :
                                 /\ head' = g.head
                                 /\ remote' = g.remote
                                 /\ io' = [save |-> "ok", push |-> g.push]
                                 /\ faults' = faults + o.faults + g.faults
                                 /\ faults' <= MaxFaults
                                 /\ Return(ResultAfterPush(g.push), "registered")
                       ELSE /\ accounts' = RollbackRegistration(secured, phone)
                            /\ io' = [save |-> "failed", push |-> "none"]
                            /\ faults' = faults + o.faults
                            /\ faults' <= MaxFaults
                            /\ UNCHANGED <<head, remote>>
                            /\ Return(FALSE, "save_failed")
  /\ UNCHANGED <<github_enabled, failed_calls, clock, op, pre, authed, prompts, opsDone>>

\* -------------------------------------------------------- find_account
\* the tail not compared: four digits find the first account of the store
find_account_any_tail(accts, identifier) ==
  IF validate_phone(identifier)
  THEN IF identifier \in Phones(accts) THEN identifier ELSE None
  ELSE IF Len(identifier) # 4 \/ ~IsDigit(identifier) THEN None
  ELSE IF accts = <<>> THEN None ELSE accts[1].phone

\* the phone found, or None
find_account(accts, identifier) ==
  IF validate_phone(identifier)
  THEN IF identifier \in Phones(accts) THEN identifier ELSE None
  ELSE IF Len(identifier) # 4 \/ ~IsDigit(identifier) THEN None
  ELSE LET hits == {i \in DOMAIN accts : Get(accts[i].info, "last_four") = identifier}
       IN IF hits = {} THEN None
          ELSE accts[CHOOSE i \in hits : \A j \in hits : i <= j].phone

\* the first test turned round: a stored status of expired lets the call pass
check_account_status_expired_passes(info, now) ==
  IF Get(info, "status") = "expired" THEN [ok |-> TRUE, mark |-> FALSE]
  ELSE IF is_expired(info["expiry_time"], now) THEN [ok |-> FALSE, mark |-> TRUE]
  ELSE [ok |-> TRUE, mark |-> FALSE]

\* the comparison of the clock with expiry_time left out
check_account_status_stored_only(info, now) ==
  IF Get(info, "status") = "expired" THEN [ok |-> FALSE, mark |-> FALSE]
  ELSE [ok |-> TRUE, mark |-> FALSE]

\* check_account_status: whether the account may be used, and whether the
\* check marks it expired (and saves)
check_account_status(info, now) ==
  IF Get(info, "status") = "expired" THEN [ok |-> FALSE, mark |-> FALSE]
  ELSE IF is_expired(info["expiry_time"], now) THEN [ok |-> FALSE, mark |-> TRUE]
  ELSE [ok |-> TRUE, mark |-> FALSE]

\* a lockout kept across calls: one attempt for an account whose earlier
\* authentication call failed
InitialAttempts_locked(calls, p) ==
  IF \E k \in DOMAIN calls : calls[k] = p THEN 1 ELSE MAX_AUTH_ATTEMPTS

\* the attempts an authentication call starts with: its counter is a local
\* variable, set whatever the earlier calls did
InitialAttempts(calls, p) == MAX_AUTH_ATTEMPTS

\* the prompt an operation goes to once its account is found
AuthPrompt(operation) == IF operation = "reset" THEN "auth_sec" ELSE "auth_pw"

\* recharge, deduct, reset_password: the identifier prompt, find_account, and for
\* recharge and deduct the status check that opens authenticate_with_password
Identifier ==
  /\ pc = "ident"
  /\ \E s \in IdentInputs :
       LET identifier == Strip(s)
           found == find_account(accounts, identifier)
       IN
       /\ input' = [at |-> pc, text |-> identifier]
       /\ IF handle_back_choice(identifier)
          THEN /\ Return(FALSE, "cancelled")
               /\ accounts' = CancelledStore(accounts)
               /\ NoStoreChangeBut
          ELSE IF found = None
          THEN Again /\ NoStoreChange
          ELSE LET status == check_account_status(Info(accounts, found), clock) IN
               IF op = "reset" \/ status.ok
               THEN /\ phone' = found
                    /\ pc' = AuthPrompt(op)
                    /\ attempts' = InitialAttempts(failed_calls, found)
                    /\ UNCHANGED <<ret, selected_question>>
                    /\ NoStoreChange
               ELSE IF ~status.mark
               THEN /\ pc' = "menu"
                    /\ ret' = [op |-> op, ok |-> FALSE, msg |-> "expired", report |-> <<>>]
                    /\ phone' = found
                    /\ attempts' = 0
                    /\ selected_question' = None
                    /\ NoStoreChange
               ELSE LET marked == SetKey(accounts, found, "status", "expired")
                    IN /\ accounts' = marked
                       /\ \E o \in save_data(marked, disk, backups, clock) :
                            /\ disk' = o.file
                            /\ backups' = o.backups
                            /\ io' = [save |-> IF o.ok THEN "ok" ELSE "failed",
                                      push |-> "none"]
                            /\ faults' = faults + o.faults
                            /\ faults' <= MaxFaults
                       /\ UNCHANGED <<head, remote>>
                       /\ pc' = "menu"
                       /\ ret' = [op |-> op, ok |-> FALSE, msg |-> "expired", report |-> <<>>]
                       /\ phone' = found
                       /\ attempts' = 0
                       /\ selected_question' = None
  /\ prompts' = 0
  /\ UNCHANGED <<github_enabled, failed_calls, clock, op, pre, authed, opsDone>>

\* ------------------------------------------------------ authentication
\* the counter not decremented
AttemptsLeft_same(n) == n

\* the attempts left after a wrong credential
AttemptsLeft(n) == n - 1

\* where an operation goes once its authentication succeeded
AfterAuth(operation) == IF operation = "reset" THEN "newpw" ELSE "amount"

\* the return after a failed authentication left out
AuthFailed_goes_on(operation) == IF operation = "reset" THEN "newpw" ELSE "amount"

\* where an operation goes once its authentication failed: it returns
AuthFailed(operation) == "menu"

\* one turn of the loop of authenticate_with_password or
\* authenticate_with_security_question, and the caller's return when it failed
Authenticate(kind, credential, verified) ==
  /\ attempts > 0
  /\ input' = [at |-> pc, text |-> credential]
  /\ prompts' = prompts + 1
  /\ IF handle_back_choice(credential)
     THEN /\ Return(FALSE, "cancelled")
          /\ failed_calls' = Append(failed_calls, phone)
          /\ UNCHANGED authed
     ELSE IF verified
     THEN /\ authed' = <<kind, phone>>
          /\ pc' = AfterAuth(op)
          /\ UNCHANGED <<ret, phone, attempts, selected_question, failed_calls>>
     ELSE IF AttemptsLeft(attempts) > 0
     THEN /\ attempts' = AttemptsLeft(attempts)
          /\ UNCHANGED <<pc, ret, phone, selected_question, authed, failed_calls>>
     ELSE /\ pc' = AuthFailed(op)
          /\ ret' = [op |-> op, ok |-> FALSE, msg |-> "exhausted", report |-> <<>>]
          /\ attempts' = AttemptsLeft(attempts)
          /\ failed_calls' = Append(failed_calls, phone)
          /\ UNCHANGED <<phone, selected_question, authed>>
  /\ accounts' = IF handle_back_choice(credential) THEN CancelledStore(accounts)
                 ELSE accounts
  /\ NoStoreChangeBut
  /\ UNCHANGED <<github_enabled, clock, op, pre, opsDone>>

AuthenticateWithPassword ==
  /\ pc = "auth_pw"
  /\ \E password \in PinInputs :
       Authenticate("password", password,
                    verify_password(password, Info(accounts, phone)["password"]))

AuthenticateWithSecurityQuestion ==
  /\ pc = "auth_sec"
  /\ \E a \in AnswerTries :
       Authenticate("security", Strip(a),
                    verify_answer(Strip(a), Info(accounts, phone)["security_answer"]))

\* ---------------------------------------------------- recharge, deduct
Balance(accts, p) == Info(accts, p)["balance"]

\* the comparison the wrong way round
InsufficientBalance_flipped(balance, amount_float) == FLess(amount_float, balance)

\* deduct refuses an amount above the balance
InsufficientBalance(balance, amount_float) == FLess(balance, amount_float)

\* the old balance not put back
BalanceAfterFailedSave_kept(old_balance, new_balance) == new_balance

\* the balance after a save that failed
BalanceAfterFailedSave(old_balance, new_balance) == old_balance

\* recharge and deduct from the amount prompt on: the new balance, the save, the
\* push when the save succeeded, the old balance back when it failed
ApplyAmount(new_balance) ==
  LET old_balance == Balance(accounts, phone)
      changed == SetKey(SetKey(accounts, phone, "balance", new_balance),
                        phone, "last_modified", IsoFormat(clock))
  IN \E o \in save_data(changed, disk, backups, clock) :
       /\ disk' = o.file
       /\ backups' = o.backups
       /\ IF o.ok
          THEN /\ accounts' = changed
               /\ \E g \in sync_to_github(FilePushed(disk, o.file), head, remote) :
                    /\ head' = g.head
                    /\ remote' = g.remote
                    /\ io' = [save |-> "ok", push |-> g.push]
                    /\ faults' = faults + o.faults + g.faults
                    /\ faults' <= MaxFaults
                    /\ Return(ResultAfterPush(g.push), "done")
          ELSE /\ accounts' = SetKey(changed, phone, "balance",
                                     BalanceAfterFailedSave(old_balance, new_balance))
               /\ io' = [save |-> "failed", push |-> "none"]
               /\ faults' = faults + o.faults
               /\ faults' <= MaxFaults
               /\ UNCHANGED <<head, remote>>
               /\ Return(FALSE, "save_failed")

RechargeAmount ==
  /\ pc = "amount"
  /\ op = "recharge"
  /\ \E s \in AmountInputs :
       LET amount == Strip(s)
           amount_float == ParseFloat(amount)
       IN
       /\ input' = [at |-> pc, text |-> amount]
       /\ IF handle_back_choice(amount)
          THEN /\ Return(FALSE, "cancelled")
               /\ accounts' = CancelledStore(accounts)
               /\ NoStoreChangeBut
          ELSE IF amount_float = ValueError \/ FLessEq(amount_float, Fin(0))
          THEN Again /\ NoStoreChange
          ELSE /\ \/ Balance(accounts, phone).cls # "fin"
                  \/ amount_float.cls # "fin"
                  \/ Balance(accounts, phone).v + amount_float.v <= MaxBalance
               /\ ApplyAmount(FAdd(Balance(accounts, phone), amount_float))
  /\ UNCHANGED <<github_enabled, failed_calls, clock, op, pre, authed, prompts, opsDone>>

DeductAmount ==
  /\ pc = "amount"
  /\ op = "deduct"
  /\ \E s \in AmountInputs :
       LET amount == Strip(s)
           amount_float == ParseFloat(amount)
       IN
       /\ input' = [at |-> pc, text |-> amount]
       /\ IF handle_back_choice(amount)
          THEN /\ Return(FALSE, "cancelled")
               /\ accounts' = CancelledStore(accounts)
               /\ NoStoreChangeBut
          ELSE IF amount_float = ValueError \/ FLessEq(amount_float, Fin(0))
          THEN Again /\ NoStoreChange
          ELSE IF InsufficientBalance(Balance(accounts, phone), amount_float)
          THEN Again /\ NoStoreChange
          ELSE ApplyAmount(FSub(Balance(accounts, phone), amount_float))
  /\ UNCHANGED <<github_enabled, failed_calls, clock, op, pre, authed, prompts, opsDone>>

\* ------------------------------------------------------ reset_password
\* AccountManager.reset_password from the new password prompts on, and the push
\* of PhoneAccountSystem.reset_password
NewPassword ==
  /\ pc = "newpw"
  /\ \E new_password \in ResetPinInputs, confirm_password \in {Pin1, Pin2} :
       /\ input' = [at |-> pc, text |-> new_password]
       /\ IF handle_back_choice(new_password)
          THEN /\ Return(FALSE, "cancelled")
               /\ accounts' = CancelledStore(accounts)
               /\ NoStoreChangeBut
          ELSE IF ~validate_password(new_password) \/ new_password # confirm_password
          THEN Again /\ NoStoreChange
          ELSE LET changed ==
                     SetKey(SetKey(accounts, phone, "password", hash_password(new_password)),
                            phone, "last_modified", IsoFormat(clock))
               IN /\ accounts' = changed
                  /\ \E o \in save_data(changed, disk, backups, clock) :
                       /\ disk' = o.file
                       /\ backups' = o.backups
                       /\ IF o.ok
                          THEN /\ \E g \in sync_to_github(FilePushed(disk, o.file), head, remote) :
                                    /\ head' = g.head
                                    /\ remote' = g.remote
                                    /\ io' = [save |-> "ok", push |-> g.push]
                                    /\ faults' = faults + o.faults + g.faults
                                    /\ faults' <= MaxFaults
                                    /\ Return(ResultAfterPush(g.push), "done")
                          ELSE /\ io' = [save |-> "failed", push |-> "none"]
                               /\ faults' = faults + o.faults
                               /\ faults' <= MaxFaults
                               /\ UNCHANGED <<head, remote>>
                               /\ Return(FALSE, "save_failed")
  /\ UNCHANGED <<github_enabled, failed_calls, clock, op, pre, authed, prompts, opsDone>>

\* ------------------------------------------------- reports and the sync
\* check_expired_accounts: the class it reports for an account
Classify(info, now) ==
  IF ~HasKey(info, "expiry_time") THEN "none"
  ELSE IF is_expired(info["expiry_time"], now) THEN "expired"
  ELSE IF (parse_time(info["expiry_time"]) - now) \div TicksPerDay <= 3 THEN "expiring"
  ELSE "normal"

\* the scan taking the balance of the accounts it reports as expired
ScanStore_forfeits(accts, now) ==
  [i \in DOMAIN accts |->
     IF Classify(accts[i].info, now) = "expired"
     THEN [accts[i] EXCEPT !.info = ("balance" :> Fin(0)) @@ @]
     ELSE accts[i]]

\* the store after check_expired_accounts: the scan assigns nothing
ScanStore(accts, now) == accts

\* menu choice 7: the report is the clock reading of the scan and the class of
\* each account
CheckExpiredAccounts ==
  /\ pc = "menu"
  /\ opsDone < MaxOps
  /\ opsDone' = opsDone + 1
  /\ ret' = [op |-> "check_expired", ok |-> TRUE, msg |-> "report",
             report |-> <<clock,
                          [i \in DOMAIN accounts |-> Classify(accounts[i].info, clock)]>>]
  /\ input' = NoInput
  /\ accounts' = ScanStore(accounts, clock)
  /\ NoStoreChangeBut
  /\ UNCHANGED <<github_enabled, failed_calls, clock, pc, op, phone, attempts, selected_question,
                 pre, authed, prompts>>

\* menu choice 9: sync_to_github
SyncToGithub ==
  /\ pc = "menu"
  /\ github_enabled
  /\ opsDone < MaxOps
  /\ opsDone' = opsDone + 1
  /\ \E g \in sync_to_github(disk, head, remote) :
       /\ head' = g.head
       /\ remote' = g.remote
       /\ io' = [save |-> "none", push |-> g.push]
       /\ faults' = faults + g.faults
       /\ faults' <= MaxFaults
       /\ ret' = [op |-> "sync_to", ok |-> g.ok, msg |-> g.msg, report |-> <<>>]
  /\ input' = NoInput
  /\ UNCHANGED <<accounts, disk, backups, github_enabled, failed_calls, clock, pc, op, phone,
                 attempts, selected_question, pre, authed, prompts>>

\* menu choice 10: sync_from_github.  The remote holds only what this program
\* pushed, so a pull that succeeds leaves the file as it is; the store is then
\* loaded from the file again.
SyncFromGithub ==
  /\ pc = "menu"
  /\ github_enabled
  /\ opsDone < MaxOps
  /\ opsDone' = opsDone + 1
  /\ \E pulled \in BOOLEAN :
       /\ accounts' = IF pulled THEN load_data(disk) ELSE accounts
       /\ faults' = IF pulled THEN faults ELSE faults + 1
       /\ faults' <= MaxFaults
       /\ ret' = [op |-> "sync_from", ok |-> pulled, msg |-> "pull", report |-> <<>>]
  /\ input' = NoInput
  /\ io' = NoIO
  /\ UNCHANGED <<disk, backups, head, remote, github_enabled, failed_calls, clock, pc, op, phone,
                 attempts, selected_question, pre, authed, prompts>>

Next ==
  \/ Menu
  \/ Tick
  \/ RegisterPhone
  \/ SetRegistrationBonus
  \/ SetValidDays
  \/ SetPassword
  \/ SelectQuestion
  \/ SetAnswer
  \/ Identifier
  \/ AuthenticateWithPassword
  \/ AuthenticateWithSecurityQuestion
  \/ RechargeAmount
  \/ DeductAmount
  \/ NewPassword
  \/ CheckExpiredAccounts
  \/ SyncToGithub
  \/ SyncFromGithub

Spec == Init /\ [][Next]_vars

\* ---------------------------------------------------------- properties
Status(accts, p) == Get(Info(accts, p), "status")
Password(accts, p) == Get(Info(accts, p), "password")
AuthPrompts == {"auth_pw", "auth_sec"}

\* C1: every account in the store has balance >= 0, after any sequence of
\* operations.
C1_BalanceNonNegative ==
  \A i \in DOMAIN accounts : FLessEq(Fin(0), accounts[i].info["balance"])

\* C2: a deduct request whose amount is greater than the balance is rejected:
\* the step leaves the store, the file, the backups and the remote as they
\* were, and performs no save and no push.
C2_DeductAboveBalanceRejected ==
  [][(/\ pc = "amount"
      /\ op = "deduct"
      /\ input'.at = "amount"
      /\ clock' = clock
      /\ ParseFloat(input'.text) # ValueError
      /\ FLess(Balance(accounts, phone), ParseFloat(input'.text)))
     => /\ accounts' = accounts
        /\ disk' = disk
        /\ backups' = backups
        /\ head' = head
        /\ remote' = remote
        /\ io' = NoIO
        /\ pc' = "amount"]_vars

\* a deduct request above the balance was made and refused
C2_Witness ==
  /\ pc = "amount"
  /\ op = "deduct"
  /\ input.at = "amount"
  /\ ParseFloat(input.text) # ValueError
  /\ FLess(Balance(accounts, phone), ParseFloat(input.text))
  /\ Balance(accounts, phone) = Fin(DEFAULT_REGISTRATION_BONUS)

\* C3: no two accounts of the store share a last_four, and the last_four of
\* each account is the last four digits of its phone.
C3_TailsUnique ==
  /\ \A i, j \in DOMAIN accounts :
       i # j => accounts[i].info["last_four"] # accounts[j].info["last_four"]
  /\ \A i \in DOMAIN accounts :
       /\ Len(accounts[i].info["last_four"]) = 4
       /\ \A k \in 1..4 :
            accounts[i].info["last_four"][k] = accounts[i].phone[7 + k]

\* a registration succeeded beside an account already in the store
C3_Witness ==
  /\ Len(accounts) = 2
  /\ ret = [op |-> "register", ok |-> TRUE, msg |-> "registered", report |-> <<>>]

\* C4: a registration that fails after the provisional account was created
\* leaves the phone out of the store, the store as it was before the
\* registration, and the tail free.
RollbackPrompts == {"reg_days", "reg_pw", "reg_q", "reg_ans"}
C4_RegistrationRollback ==
  (/\ pc = "menu"
   /\ ret.op = "register"
   /\ ~ret.ok
   /\ input.at \in RollbackPrompts)
  => /\ phone \notin Phones(accounts)
     /\ accounts = pre
     /\ ~tail_conflict(accounts, LastFour(phone))
     /\ \A i \in DOMAIN accounts :
          accounts[i].info["last_four"] # SubSeq(phone, 8, 11)

\* a registration was undone because the save at its end failed
C4_Witness ==
  /\ pc = "menu"
  /\ ret = [op |-> "register", ok |-> FALSE, msg |-> "save_failed", report |-> <<>>]
  /\ input.at = "reg_ans"
  /\ Len(pre) = 1

\* C5: one authentication call issues at most 3 credential prompts, fails as
\* exhausted after the 3rd wrong credential, and succeeds only on a credential
\* whose hash is the stored one.
C5_ThreeAttempts ==
  /\ prompts <= MAX_AUTH_ATTEMPTS
  /\ pc \in AuthPrompts => prompts < MAX_AUTH_ATTEMPTS
  /\ ret.msg = "exhausted" => /\ prompts = MAX_AUTH_ATTEMPTS
                              /\ pc = "menu"
                              /\ ~ret.ok
                              /\ authed = None
  /\ (pc = "amount" /\ input.at = "auth_pw")
       => hash_password(input.text) = Password(accounts, phone)
  /\ (pc = "newpw" /\ input.at = "auth_sec")
       => <<"sha256", Lower(Strip(input.text))>>
            = Info(accounts, phone)["security_answer"]
  /\ authed # None => prompts \in 1..MAX_AUTH_ATTEMPTS

\* an authentication call ended after three wrong credentials
C5_Witness ==
  /\ ret.msg = "exhausted"
  /\ prompts = MAX_AUTH_ATTEMPTS
  /\ input.at \in AuthPrompts

\* the prompts of recharge, deduct and reset_password
OperationPrompts == {"ident", "auth_pw", "auth_sec", "amount", "newpw"}

\* what a step of an operation may change, and where
MutationNeedsAuthentication ==
  (pc \in OperationPrompts =>
       \A i \in DOMAIN accounts : \A j \in DOMAIN accounts' :
         accounts[i].phone = accounts'[j].phone =>
           /\ accounts[i].info["balance"] # accounts'[j].info["balance"]
                => /\ pc = "amount"
                   /\ op \in {"recharge", "deduct"}
                   /\ authed = <<"password", accounts[i].phone>>
                   /\ phone = accounts[i].phone
           /\ accounts[i].info["password"] # accounts'[j].info["password"]
                => /\ pc = "newpw"
                   /\ op = "reset"
                   /\ authed = <<"security", accounts[i].phone>>
                   /\ phone = accounts[i].phone)

\* C6: a step changes the balance of an account only at the amount prompt of a
\* recharge or deduct whose password authentication of that account succeeded,
\* and a step of reset_password changes its password_hash only at the new
\* password prompt after a security-question authentication of that account
\* succeeded; the steps of a failed, exhausted or cancelled authentication change
\* neither.
C6_MutationNeedsAuthentication == [][MutationNeedsAuthentication]_vars

\* a recharge changed the balance of the account it authenticated
C6_Witness ==
  /\ pc = "menu"
  /\ ret.op = "recharge"
  /\ ret.ok
  /\ authed = <<"password", phone>>
  /\ Balance(accounts, phone) # Balance(pre, phone)

\* a step from the identifier prompt of recharge or deduct into the
\* authentication
StatusCheckedFirst ==
    ((/\ pc = "ident"
      /\ op \in {"recharge", "deduct"}
      /\ pc' # "ident"
      /\ ret'.msg # "cancelled")
     => LET before == Info(accounts, phone')
            after == Info(accounts', phone')
        IN IF before["status"] = "expired"
           THEN /\ pc' = "menu"
                /\ ret' = [op |-> op, ok |-> FALSE, msg |-> "expired", report |-> <<>>]
                /\ prompts' = 0
                /\ accounts' = accounts
                /\ io' = NoIO
           ELSE IF clock > before["expiry_time"][2]
           THEN /\ pc' = "menu"
                /\ ret' = [op |-> op, ok |-> FALSE, msg |-> "expired", report |-> <<>>]
                /\ prompts' = 0
                /\ before["status"] = "active"
                /\ after["status"] = "expired"
                /\ io'.save # "none"
                /\ io'.save = "ok"
                     => /\ disk'.exists
                        /\ disk'.text = <<"json", accounts'>>
                        /\ Status(load_data(disk'), phone') = "expired"
           ELSE /\ pc' = "auth_pw"
                /\ prompts' = 0
                /\ accounts' = accounts)

StatusMonotone ==
    (\A i \in DOMAIN accounts : \A j \in DOMAIN accounts' :
       accounts[i].phone = accounts'[j].phone =>
         LET before == accounts[i].info
             after == accounts'[j].info
         IN \/ before["status"] = after["status"]
            \/ /\ before["status"] = "unset"
               /\ after["status"] = "active"
               /\ pc = "reg_days"
               /\ after["valid_days"] > 0
            \/ /\ before["status"] = "active"
               /\ after["status"] = "expired"
               /\ clock > before["expiry_time"][2])

\* C8: the status of an account moves only from unset to active, in the step
\* that sets a positive validity period, and from active to expired, in a step
\* that found the clock past expiry_time; an expired account stays expired.
C8_StatusMonotone == [][StatusMonotone]_vars

\* C9: when the save fails in recharge or deduct, the operation reports failure,
\* the balance in memory is the balance before the operation, and no push is
\* made.
C9_FailedSaveRestoresBalance ==
  (/\ pc = "menu"
   /\ ret.op \in {"recharge", "deduct"}
   /\ io.save = "failed"
   /\ input.at = "amount")
  => /\ ret = [op |-> ret.op, ok |-> FALSE, msg |-> "save_failed", report |-> <<>>]
     /\ Balance(accounts, phone) = Balance(pre, phone)
     /\ io.push = "none"

\* the save of a deduct failed
C9_Witness ==
  /\ pc = "menu"
  /\ ret.op = "deduct"
  /\ ret.msg = "save_failed"
  /\ io.save = "failed"
  /\ input.at = "amount"

\* C10: when the save fails in reset_password, the operation reports failure and
\* the password_hash in memory is the one before the operation.
C10_FailedSaveRestoresPassword ==
  (/\ pc = "menu"
   /\ ret.op = "reset"
   /\ io.save = "failed"
   /\ input.at = "newpw")
  => /\ ~ret.ok
     /\ Password(accounts, phone) = Password(pre, phone)

\* C11: whenever no operation is in progress, the store in memory is the store
\* the snapshot file holds (the empty store when there is no file); stated for
\* the files that are absent or complete, which the last successful save or
\* load left.
C11_StoreEqualsSnapshot ==
  (/\ pc = "menu"
   /\ (~disk.exists \/ JsonParses(disk.text)))
  => accounts = load_data(disk)

\* the prompts at which an operation saves and pushes
SavePrompts == {"reg_ans", "amount", "newpw"}

\* a step of an operation that called sync_to_github
PushFollowsSave ==
  (/\ pc \in SavePrompts
   /\ io'.push # "none")
  => /\ io'.save = "ok"
     /\ disk'.exists
     /\ disk'.text = JsonDump(accounts')
     /\ io'.push = "ok" => head' = disk'.text
     /\ remote' \in {remote, disk'.text}

\* a step of an operation whose save failed
NoPushAfterFailedSave ==
  (/\ pc \in SavePrompts
   /\ io'.save = "failed")
  => /\ io'.push = "none"
     /\ head' = head
     /\ remote' = remote

\* C12: register, recharge, deduct and reset_password call the push only in a
\* step whose save succeeded, on the file that save wrote: what is committed
\* and pushed is the snapshot holding the mutation, and a step whose save
\* failed pushes nothing.
C12_PushFollowsSave == [][PushFollowsSave /\ NoPushAfterFailedSave]_vars

\* a recharge was saved and the snapshot holding it reached the remote
C12_Witness ==
  /\ pc = "menu"
  /\ ret.op = "recharge"
  /\ io = [save |-> "ok", push |-> "ok"]
  /\ remote = disk.text
  /\ disk.text = JsonDump(accounts)
  /\ accounts # pre

\* C13: a push that fails leaves the store and the snapshot file as the save
\* left them, and the operation that called it returns success.
C13_FailedPushIsHarmless ==
  (/\ pc = "menu"
   /\ ret.op \in {"register", "recharge", "deduct", "reset"}
   /\ io.push # "none"
   /\ remote # disk.text)
  => /\ ret.ok
     /\ io.save = "ok"
     /\ disk.exists
     /\ disk.text = JsonDump(accounts)
     /\ accounts = load_data(disk)

\* git failed in the push of a deduct
C13_Witness ==
  /\ pc = "menu"
  /\ ret.op = "deduct"
  /\ ret.ok
  /\ io = [save |-> "ok", push |-> "failed"]
  /\ remote # disk.text

\* a step that overwrites a snapshot file that existed
BackupBeforeOverwrite ==
  (/\ disk.exists
   /\ disk' # disk)
  => \E n \in DOMAIN backups' : backups'[n].text = disk.text

\* C14: when save overwrites a snapshot file that existed, the backup directory
\* holds a copy of the contents the file had: no overwrite follows a backup
\* copy that failed.
C14_BackupBeforeOverwrite == [][BackupBeforeOverwrite]_vars

\* a step that changes the backup directory
BackupNameIsNew ==
  backups' # backups => BackupName(clock) \notin DOMAIN backups

\* C16: the backup copy a save makes gets a name no backup in the directory
\* has: a save never overwrites a backup.
C16_BackupNameIsNew == [][BackupNameIsNew]_vars

\* ------------------------------------ saves on a full backup directory
\* the seconds before the program started in which earlier runs made backups
EarlierSeconds == (0 - BACKUP_COUNT)..(0 - 1)

\* the snapshot file an earlier run left, last written one tick before the start
EarlierFile ==
  [exists |-> TRUE, text |-> JsonDump(<<Registered(P1, Pin1)>>), mtime |-> 0 - 1]

\* the backup directories earlier runs may have left: BACKUP_COUNT backups, or
\* one fewer; each backup carries the modification time of the file it copied,
\* which was written in the second of the backup or, for the MaxLate oldest,
\* in the second before
EarlierBackups ==
  {[n \in K |-> [text |-> JsonDump(<<>>), mtime |-> (n - late[n]) * TicksPerSecond]] :
     K \in {EarlierSeconds} \cup
           {EarlierSeconds \ {n} : n \in EarlierSeconds \ {0 - BACKUP_COUNT}},
     late \in {f \in [EarlierSeconds -> {0, 1}] :
                \A n \in EarlierSeconds : n >= MaxLate - BACKUP_COUNT => f[n] = 0}}

\* PhoneAccountSystem.__init__ beside a backup directory earlier runs filled
InitBackup ==
  /\ disk = EarlierFile
  /\ accounts = load_data(disk)
  /\ backups \in EarlierBackups
  /\ github_enabled = FALSE
  /\ head = None
  /\ remote = None
  /\ clock = 0
  /\ pc = "menu"
  /\ op = "none"
  /\ phone = None
  /\ attempts = 0
  /\ selected_question = None
  /\ input = NoInput
  /\ ret = NoRet
  /\ io = NoIO
  /\ pre = <<>>
  /\ authed = None
  /\ prompts = 0
  /\ opsDone = 0
  /\ failed_calls = <<>>
  /\ faults = 0

\* AccountManager.save_data: the store is saved as it is
Save ==
  /\ pc = "menu"
  /\ \E o \in save_data(accounts, disk, backups, clock) :
       /\ disk' = o.file
       /\ backups' = o.backups
       /\ io' = [save |-> IF o.ok THEN "ok" ELSE "failed", push |-> "none"]
       /\ faults' = faults + o.faults
       /\ faults' <= MaxFaults
  /\ UNCHANGED <<accounts, head, remote, github_enabled, failed_calls, clock, pc, op, phone,
                 attempts, selected_question, input, ret, pre, authed, prompts,
                 opsDone>>

NextBackup ==
  \/ Save
  \/ Tick

SpecBackup == InitBackup /\ [][NextBackup]_vars

\* what a save may do to the backup directory
EvictsOldest ==
  LET evicted == DOMAIN backups \ DOMAIN backups'
  IN /\ Cardinality(DOMAIN backups') <= BACKUP_COUNT
     /\ evicted # {} => Cardinality(DOMAIN backups') = BACKUP_COUNT
     /\ \A e \in evicted : \A k \in DOMAIN backups' :
          /\ backups[e].mtime <= backups'[k].mtime
          /\ k \in DOMAIN backups => backups'[k].mtime >= backups[e].mtime

C17_LoadNeverFails ==
  (/\ pc = "menu"
   /\ opsDone = 0 \/ (ret.op = "sync_from" /\ ret.ok)
   /\ ~(disk.exists /\ JsonParses(disk.text)))
  => accounts = <<>>

\* the program started on a file that cannot be parsed, and a registration on
\* the empty store it loaded succeeded
C17_Witness ==
  /\ pc = "menu"
  /\ ret = [op |-> "register", ok |-> TRUE, msg |-> "registered", report |-> <<>>]
  /\ faults = 0
  /\ \E n \in DOMAIN backups : backups[n].text = Truncated
  /\ Len(accounts) = 1
  /\ accounts = load_data(disk)

\* C18: after the scan of check_expired_accounts, every account the scan
\* reported as expired has status expired in memory and in the snapshot file.
C18_ScanMarksExpired ==
  (/\ pc = "menu"
   /\ ret.op = "check_expired")
  => \A i \in DOMAIN ret.report[2] :
       ret.report[2][i] = "expired"
         => /\ accounts[i].info["status"] = "expired"
            /\ i \in DOMAIN load_data(disk)
            /\ load_data(disk)[i].info["status"] = "expired"

\* a scan by check_expired_accounts
ScanIsIdempotent ==
  (/\ pc = "menu"
   /\ ret'.op = "check_expired"
   /\ opsDone' = opsDone + 1)
  => /\ DOMAIN accounts' = DOMAIN accounts
     /\ \A i \in DOMAIN accounts :
          /\ accounts'[i].phone = accounts[i].phone
          /\ accounts'[i].info["balance"] = accounts[i].info["balance"]
          /\ accounts'[i].info["registration_bonus"]
               = accounts[i].info["registration_bonus"]
     /\ (ret.op = "check_expired" /\ ret.report[1] = clock)
          => ret'.report = ret.report

\* C19: a scan of check_expired_accounts that follows another with the clock
\* where it was gives every account the class the first scan gave it, and no
\* scan changes a balance or a registration_bonus.
C19_ScanIsIdempotent == [][ScanIsIdempotent]_vars

\* two scans one after the other at clock 0, of two accounts about to expire
C19_Witness ==
  /\ pc = "menu"
  /\ opsDone = 2
  /\ ~github_enabled
  /\ pre = <<>>
  /\ clock = 0
  /\ ret.op = "check_expired"
  /\ ret.report = <<0, <<"expiring", "expiring">>>>
  /\ Len(accounts) = 2

\* C20: a successful recharge of an amount a > 0 followed by a successful
\* deduct of a leaves the balance the account had before the recharge.  Stated
\* for an account that held the default registration bonus: the store before
\* the deduct shows the bonus plus a, and the deduct took a.
C20_RechargeThenDeduct ==
  (/\ pc = "menu"
   /\ opsDone = 2
   /\ ret.op = "deduct"
   /\ ret.ok
   /\ input.at = "amount"
   /\ FLess(Fin(0), ParseFloat(input.text))
   /\ phone \in Phones(pre)
   /\ Balance(pre, phone) # Fin(DEFAULT_REGISTRATION_BONUS)
   /\ Balance(pre, phone)
        = FAdd(Fin(DEFAULT_REGISTRATION_BONUS), ParseFloat(input.text)))
  => Balance(accounts, phone) = Fin(DEFAULT_REGISTRATION_BONUS)

\* C21: every account with a validity period has valid_days > 0 and an
\* expiry_time that is its created_at plus exactly valid_days days.
C21_ExpiryIsCreationPlusValidDays ==
  \A i \in DOMAIN accounts :
    HasKey(accounts[i].info, "valid_days")
      => /\ accounts[i].info["valid_days"] > 0
         /\ parse_time(accounts[i].info["expiry_time"])
              = parse_time(accounts[i].info["created_at"])
                + accounts[i].info["valid_days"] * TicksPerDay

\* a step from a prompt of recharge, deduct or reset_password to another of
\* its prompts, and a step that cancels at one of them
CancelChangesNothing ==
  /\ (pc \in OperationPrompts /\ pc' \in OperationPrompts)
       => /\ accounts' = pre
          /\ UNCHANGED <<disk, backups, head, remote>>
          /\ io' = NoIO
  /\ (pc \in OperationPrompts /\ ret'.msg = "cancelled")
       => /\ handle_back_choice(input'.text)
          /\ pc' = "menu"
          /\ ~ret'.ok
          /\ accounts' = pre
          /\ UNCHANGED <<disk, backups, head, remote>>
          /\ io' = NoIO

\* C22: the back choice at any prompt of recharge, deduct, reset_password or of
\* the two authentications ends the operation with the store as it was when the
\* operation started, the snapshot file, the backups and the remote untouched
\* since then, and no push.
C22_CancelChangesNothing == [][CancelChangesNothing]_vars

\* a deduct was cancelled at its amount prompt, after its authentication and
\* with the clock moved on since the operation started
C22_Witness ==
  /\ pc = "menu"
  /\ ret = [op |-> "deduct", ok |-> FALSE, msg |-> "cancelled", report |-> <<>>]
  /\ input = [at |-> "amount", text |-> BACK]
  /\ authed = <<"password", phone>>
  /\ clock > 0
  /\ accounts = pre
  /\ Len(accounts) = 2

\* an account whose registration was completed
Complete(info) ==
  /\ Get(info, "password") # None
  /\ Get(info, "security_question") # None
  /\ Get(info, "security_answer") # None
  /\ HasKey(info, "status")
  /\ info["status"] # "unset"

\* C23: at the menu every account of the store has its password hash, its
\* security question and its answer hash and a status other than unset; in
\* every state, so after every save, every account of the snapshot file has
\* them too.
C23_NoPartialAccount ==
  /\ pc = "menu" => \A i \in DOMAIN accounts : Complete(accounts[i].info)
  /\ \A i \in DOMAIN load_data(disk) : Complete(load_data(disk)[i].info)

\* a registration was cancelled at the answer prompt, when the provisional
\* account had a password and no security question, beside a snapshot file that
\* holds an account
C23_Witness ==
  /\ pc = "menu"
  /\ ret = [op |-> "register", ok |-> FALSE, msg |-> "cancelled", report |-> <<>>]
  /\ input = [at |-> "reg_ans", text |-> BACK]
  /\ phone \notin Phones(accounts)
  /\ Len(load_data(disk)) = 1
  /\ accounts = load_data(disk)

\* the identifiers find_account is tried on: those the prompts offer, a valid
\* phone that is never registered under this tail, tails, and strings that are
\* neither a phone nor a tail
FindInputs ==
  {Strip(s) : s \in IdentInputs} \cup
  {P2, <<"5", "6", "7", "8">>, <<"1", "2", "a", "4">>, <<"2", "3", "4">>,
   <<"0", "1", "2", "3", "4">>, <<>>,
   <<"2", "3", "8", "0", "0", "0", "0", "1", "2", "3", "4">>}

\* C24: find_account gives the account keyed by the identifier when that is a
\* valid phone of the store, the one account with that last_four when the
\* identifier is 4 digits and there is one, and no account otherwise; what it
\* gives has the identifier as its phone or its last_four; the step that found
\* the account left the store as it was.
C24_FindAccount ==
  /\ \A id \in FindInputs :
       LET found == find_account(accounts, id)
           phoneHit == validate_phone(id) /\ id \in Phones(accounts)
           tailHit == /\ Len(id) = 4
                      /\ IsDigit(id)
                      /\ \E i \in DOMAIN accounts : accounts[i].info["last_four"] = id
       IN /\ phoneHit => found = id
          /\ tailHit => /\ found \in Phones(accounts)
                        /\ \A i \in DOMAIN accounts :
                             accounts[i].info["last_four"] = id
                               <=> accounts[i].phone = found
          /\ (~phoneHit /\ ~tailHit) => found = None
          /\ found # None => /\ found \in Phones(accounts)
                             /\ \/ found = id
                                \/ Info(accounts, found)["last_four"] = id
  /\ (pc \in AuthPrompts /\ input.at = "ident")
       => /\ accounts = pre
          /\ phone \in Phones(accounts)
          /\ \/ phone = input.text
             \/ Info(accounts, phone)["last_four"] = input.text

\* the identifier prompt of a recharge found the first of two accounts by its
\* tail
C24_Witness ==
  /\ pc = "auth_pw"
  /\ op = "recharge"
  /\ input = [at |-> "ident", text |-> <<"1", "2", "3", "4">>]
  /\ phone = P1
  /\ Len(accounts) = 2
  /\ find_account(accounts, <<"5", "6", "7", "8">>) = P3
  /\ find_account(accounts, P2) = None

\* a step of recharge, deduct, reset_password or of the end of a registration
\* that changes a persisted field of an account
LastModifiedFollows ==
  pc \in {"ident", "amount", "newpw", "reg_ans"} =>
    \A i \in DOMAIN accounts : \A j \in DOMAIN accounts' :
      accounts[i].phone = accounts'[j].phone =>
        LET before == accounts[i].info
            after == accounts'[j].info
        IN (\/ before["balance"] # after["balance"]
            \/ before["password"] # after["password"]
            \/ before["security_question"] # after["security_question"]
            \/ before["security_answer"] # after["security_answer"]
            \/ (before["status"] = "active" /\ after["status"] = "expired"))
           => Get(after, "last_modified") = IsoFormat(clock)

\* C25: every step that changes the balance, the password hash, the security
\* credentials or, from active to expired, the status of an account also sets
\* its last_modified to the current clock reading.
C25_LastModifiedFollows == [][LastModifiedFollows]_vars

\* C26: sync_to_github returns ok only when the remote holds the snapshot file
\* once it returned, because the push delivered it or because there was nothing
\* to push; a push that did not succeed is returned as a failure.
C26_PushFailureReported ==
  (/\ pc = "menu"
   /\ ret.op = "sync_to"
   /\ ret.ok)
  => /\ disk.exists
     /\ remote = disk.text
     /\ ret.msg # "push_failed"

\* what a step may do to an account whose stored status is expired
ExpiredIsFrozen ==
  /\ \A i \in DOMAIN accounts :
       Get(accounts[i].info, "status") = "expired" =>
         /\ \A j \in DOMAIN accounts' :
              accounts'[j].phone = accounts[i].phone
                => accounts'[j].info["balance"] = accounts[i].info["balance"]
         /\ (/\ pc = "ident"
             /\ op \in {"recharge", "deduct"}
             /\ input'.at = "ident"
             /\ find_account(accounts, input'.text) = accounts[i].phone)
              => /\ pc' = "menu"
                 /\ ret' = [op |-> op, ok |-> FALSE, msg |-> "expired", report |-> <<>>]
                 /\ prompts' = 0
                 /\ accounts' = accounts
                 /\ io' = NoIO
  /\ pc' \in {"auth_pw", "amount"} => Status(accounts', phone') # "expired"

\* C27: no step changes the balance of an account whose stored status is
\* expired; a recharge or deduct that finds such an account is refused as
\* expired by the status check, with no password prompt, no amount prompt and no
\* save.
C27_ExpiredIsFrozen == [][ExpiredIsFrozen]_vars

\* a deduct was refused on an account that an earlier operation had marked
\* expired
C27_Witness ==
  /\ pc = "menu"
  /\ opsDone = 2
  /\ ret = [op |-> "deduct", ok |-> FALSE, msg |-> "expired", report |-> <<>>]
  /\ input.at = "ident"
  /\ Status(pre, phone) = "expired"
  /\ prompts = 0
  /\ io = NoIO
  /\ Balance(accounts, phone) = Balance(pre, phone)

\* a step of an authentication call, and the step that opens one
AttemptsAreLocal ==
  /\ pc \in AuthPrompts
       => /\ accounts' = accounts
          /\ UNCHANGED <<disk, backups, head, remote>>
          /\ io' = NoIO
  /\ (pc \in AuthPrompts /\ pc' = "menu")
       => /\ ret'.msg \in {"cancelled", "exhausted"}
          /\ ~ret'.ok
          /\ failed_calls' = Append(failed_calls, phone)
  /\ (pc = "ident" /\ pc' \in AuthPrompts)
       => /\ attempts' = MAX_AUTH_ATTEMPTS
          /\ prompts' = 0

\* C28: an authentication call that ends cancelled or with its attempts
\* exhausted, and every wrong credential before that, changes no account and
\* saves nothing; every authentication call starts with 3 attempts, whatever
\* calls failed on the account before.
C28_AttemptsAreLocal == [][AttemptsAreLocal]_vars

\* two authentication calls on the same account, one after the other: the first
\* failed, the second was given three prompts and failed as exhausted
C28_Witness ==
  /\ pc = "menu"
  /\ opsDone = 2
  /\ failed_calls = <<P1, P1>>
  /\ ret.msg = "exhausted"
  /\ prompts = MAX_AUTH_ATTEMPTS
  /\ Status(accounts, P1) = "active"
  /\ accounts = load_data(disk)
  /\ backups = <<>>

====
